---- MODULE Spec2Model ----
(***************************************************************************)
(* Model of the NeonLaserTrail component (src/src/App.tsx): the trail      *)
(* registry, the pointer bindings, the three pointer handlers and the      *)
(* per-frame render callback.                                              *)
(*                                                                         *)
(* Units.  The program computes in floating point; the model computes in   *)
(* integers of a fixed unit per channel:                                   *)
(*   alpha  : 1/AlphaScale   (alpha 1 is 1000, FADE_SPEED 0.006 is 6)      *)
(*   hue    : 1/HueScale deg (360 degrees is 7200; 360*(D%800)/800 is a    *)
(*            multiple of 1/20 degree for every integer distance D)        *)
(*   x, y, distances : pixels.  Positions are drawn from a set whose       *)
(*            pairwise distances are whole numbers, so Math.sqrt is exact. *)
(* Interpolated samples (parameter t = step/8) carry alpha in units of     *)
(* 1/(AlphaScale*segmentSteps).  Their x, y and hue are computed as the    *)
(* program computes them, in binary64: a double is a sign and a magnitude  *)
(* in units of 2^-FractionBits, held in NumLimbs limbs of LimbBits bits,   *)
(* and every operation rounds to MantissaBits significant bits, ties to    *)
(* even.                                                                   *)
(*                                                                         *)
(* Environment.  touches is the browser's list of the contacts on the      *)
(* surface, in the order they went down; a touch event carries that list   *)
(* and the contacts it is about.  The canvas has no onTouchCancel, so a     *)
(* contact leaves the list only through TouchEnd.  Pointer events are       *)
(* delivered on every InputPeriod-th frame (any number of them on such a    *)
(* frame); render runs on every frame.                                      *)
(*                                                                         *)
(* History.  lastEvent records the event of the last step and the age      *)
(* field of a point counts the render calls since its capture; the program *)
(* has neither and no handler reads them.  Trail.lastUpdateTime is written *)
(* once and never read, and is left out.                                   *)
(***************************************************************************)
EXTENDS Integers, Sequences, FiniteSets, TLC

\* ------------------------------------------------------------------ bounds
MaxTrails == 2
MaxDistance == 5
MaxHueTrails == 13
MaxHueLive == 2
InputPeriod == 84
AgeCap == 170
FarMaxPoints == 5
FarMaxPrior == 11
InterpMaxPoints == 4
CapMaxPoints == 152
FadeMaxDistance == 15

\* --------------------------------------------------------------- constants
AlphaScale == 1000
HueScale == 20
MIN_DISTANCE == 1
FADE_SPEED == 6
COLOR_PHASE_DISTANCE == 800
HUE_STEP == 30
FULL_CIRCLE == 360
segmentSteps == 8
Null == -1
\* The cap on a trail's points that the README describes.
PointCap == 150

TouchIds == { 0, 1 }
\* Where a pointer goes down, and where a pointer can be moved to.
StartPositions == { <<10, 10>> }
Positions == { <<10, 10>>, <<13, 14>> }
\* Positions on one line, 1, 800 and 850 pixels from the start position.
\* Three positions 3, 4 and 5 pixels apart.
InterpPositions == { <<10, 10>>, <<13, 10>>, <<10, 14>> }
FarPositions == { <<10, 10>>, <<11, 10>>, <<810, 10>>, <<860, 10>> }

VARIABLES trails, hueRef, activeTrailsMap, activeMouseTrailRef,
          trailIdCounterRef, isDrawingRef, touches, frame, lastEvent,
          animationIdRef, rafPending, mounted, sample

vars == << trails, hueRef, activeTrailsMap, activeMouseTrailRef,
           trailIdCounterRef, isDrawingRef, touches, frame, lastEvent,
           animationIdRef, rafPending, mounted, sample >>

\* The animation loop's state: the stored handle, the browser's set of
\* scheduled callbacks, and whether the effect is still in place.
loopVars == << animationIdRef, rafPending, mounted >>

\* ----------------------------------------------------------------- helpers
Max(a, b) == IF a >= b THEN a ELSE b
Min(a, b) == IF a <= b THEN a ELSE b

RECURSIVE SqrtSearch(_, _, _)
SqrtSearch(n, lo, hi) ==
    IF lo >= hi THEN lo
    ELSE LET mid == (lo + hi + 1) \div 2
         IN  IF mid * mid <= n THEN SqrtSearch(n, mid, hi)
                               ELSE SqrtSearch(n, lo, mid - 1)

\* The search stays below 46341, whose square no longer fits 32 bits.
Sqrt(n) == SqrtSearch(n, 0, Min(n, 46340))

getDistance(p1, p2) ==
    Sqrt((p1.x - p2.x) * (p1.x - p2.x) + (p1.y - p2.y) * (p1.y - p2.y))

\* ------------------------------------------------------------------ events
\* A mouse event carries clientX/clientY and no touch lists; a touch event
\* carries the list of every contact on the surface (touches, in the order
\* the contacts went down) and the list of the contacts this event is about
\* (changedTouches).
MouseEvent(pos) ==
    [isTouch |-> FALSE, clientX |-> pos[1], clientY |-> pos[2],
     touches |-> << >>, changedTouches |-> << >>]

TouchEvent(ts, changed) ==
    [isTouch |-> TRUE, clientX |-> 0, clientY |-> 0,
     touches |-> ts, changedTouches |-> changed]

Touch(id, pos) == [identifier |-> id, clientX |-> pos[1], clientY |-> pos[2]]

getPos(e) ==
    IF e.isTouch /\ Len(e.touches) > 0
    THEN [x |-> e.touches[1].clientX, y |-> e.touches[1].clientY]
    ELSE [x |-> e.clientX, y |-> e.clientY]

\* ---------------------------------------------------------------- registry
TrailIndex(ts, trailId) ==
    IF \E k \in 1 .. Len(ts) : ts[k].trailId = trailId
    THEN CHOOSE k \in 1 .. Len(ts) :
            /\ ts[k].trailId = trailId
            /\ \A j \in 1 .. (k - 1) : ts[j].trailId # trailId
    ELSE 0

findTrailById(trailId) == TrailIndex(trails, trailId)

\* sample holds the last interpolated point that was computed, with the
\* points, index and step it was computed from; the program draws such a
\* point and keeps nothing of it.
NoSample == [points |-> << >>, i |-> 0, step |-> 0,
             startPoint |-> << >>, endPoint |-> << >>, drawn |-> FALSE]

\* requestAnimationFrame returns a fresh non-zero handle.  The browser counts
\* handles up; the model keeps the count modulo InputPeriod, which tells the
\* handle of one frame from the handles of the frames next to it.
FirstHandle == 1

requestAnimationFrame(f) == ((f + 1) % InputPeriod) + 1

cancelAnimationFrame(pending, handle) == pending \ { handle }

\* The state after the mount effect (36-141) has run with a canvas and a
\* 2d context: the first callback is scheduled and its handle stored.
Init ==
    /\ trails = << >>
    /\ hueRef = 0
    /\ activeTrailsMap = << >>
    /\ activeMouseTrailRef = Null
    /\ trailIdCounterRef = 0
    /\ isDrawingRef = FALSE
    /\ touches = << >>
    /\ frame = 0
    /\ lastEvent = [kind |-> "init", src |-> "none", ids |-> {}, x |-> 0, y |-> 0]
    /\ animationIdRef = FirstHandle
    /\ rafPending = { FirstHandle }
    /\ mounted = TRUE
    /\ sample = NoSample

\* --------------------------------------------------- handleStart (169-212)
\* Mutant of NewBaseHue: the step of the earlier variant (hue + 10).
NewBaseHue_StepTen(h) == (h + 10 * HueScale) % (FULL_CIRCLE * HueScale)

NewBaseHue(h) == (h + HUE_STEP * HueScale) % (FULL_CIRCLE * HueScale)

NewPoint(x, y, hue) == [x |-> x, y |-> y, alpha |-> AlphaScale, hue |-> hue, age |-> 0]

NewTrail(x, y, baseHue, trailId) ==
    [points |-> << NewPoint(x, y, baseHue), NewPoint(x, y, baseHue) >>,
     baseHue |-> baseHue,
     cumulativeDistance |-> 0,
     lastPoint |-> [x |-> x, y |-> y],
     trailId |-> trailId]

HasTouches(e) == e.isTouch /\ Len(e.touches) > 0

MapSet(m, key, value) ==
    [k \in (DOMAIN m) \cup {key} |-> IF k = key THEN value ELSE m[k]]

MapDelete(m, keys) == [k \in (DOMAIN m) \ keys |-> m[k]]

\* Mutant of NextTrailId: the identifier is the registry's current length.
NextTrailId_RegistryLength == Len(trails)

NextTrailId == trailIdCounterRef

handleStart(e) ==
    LET pos == getPos(e)
        baseHue == NewBaseHue(hueRef)
        trailId == NextTrailId
    IN  /\ hueRef' = baseHue
        /\ trailIdCounterRef' = trailIdCounterRef + 1
        /\ trails' = Append(trails, NewTrail(pos.x, pos.y, baseHue, trailId))
        /\ IF HasTouches(e)
           THEN /\ activeTrailsMap' = MapSet(activeTrailsMap, e.touches[1].identifier, trailId)
                /\ UNCHANGED activeMouseTrailRef
           ELSE /\ activeMouseTrailRef' = trailId
                /\ UNCHANGED activeTrailsMap
        /\ isDrawingRef' = TRUE

\* ---------------------------------------------------- handleMove (215-270)
\* The trail id the handler resolves for the event: Null stands for undefined.
\* Mutant of ResolveTrailId: a move draws on the newest trail of the registry
\* whichever pointer moved, as with the single current trail of the earlier
\* variant.
ResolveTrailId_NewestTrail(e) ==
    IF trails = << >> THEN Null ELSE trails[Len(trails)].trailId

ResolveTrailId(e) ==
    IF HasTouches(e)
    THEN IF e.touches[1].identifier \in DOMAIN activeTrailsMap
         THEN activeTrailsMap[e.touches[1].identifier]
         ELSE Null
    ELSE activeMouseTrailRef

\* Mutant of ColorHue: the colour runs over 60 degrees per phase, the range
\* the README describes, instead of the full circle.
ColorHue_SixtyDegrees(baseHue, cumulativeDistance) ==
    (baseHue + ((cumulativeDistance % COLOR_PHASE_DISTANCE) * 60 * HueScale)
                  \div COLOR_PHASE_DISTANCE) % (FULL_CIRCLE * HueScale)

ColorHue(baseHue, cumulativeDistance) ==
    (baseHue + ((cumulativeDistance % COLOR_PHASE_DISTANCE) * FULL_CIRCLE * HueScale)
                  \div COLOR_PHASE_DISTANCE) % (FULL_CIRCLE * HueScale)

\* Mutant of TooClose: the first variant, which stores every move.
TooClose_NoFilter(d) == FALSE

TooClose(d) == d < MIN_DISTANCE

\* Mutant of AppendPoint: the capped variant the README describes, which
\* drops the oldest point once the trail holds PointCap points.
AppendPoint_Capped(trail, pos) ==
    LET d == getDistance(pos, trail.lastPoint)
        cd == trail.cumulativeDistance + d
        kept == IF Len(trail.points) >= PointCap THEN Tail(trail.points) ELSE trail.points
    IN  [trail EXCEPT !.cumulativeDistance = cd,
                      !.points = Append(kept, NewPoint(pos.x, pos.y, ColorHue(trail.baseHue, cd))),
                      !.lastPoint = pos]

\* Mutant of AppendPoint: the last recorded position is not brought up to
\* date.
AppendPoint_StaleLastPoint(trail, pos) ==
    LET d == getDistance(pos, trail.lastPoint)
        cd == trail.cumulativeDistance + d
    IN  [trail EXCEPT !.cumulativeDistance = cd,
                      !.points = Append(@, NewPoint(pos.x, pos.y, ColorHue(trail.baseHue, cd)))]

\* Mutant of AppendPoint: the new point is put in front of the stored points
\* (unshift for push).
AppendPoint_AtFront(trail, pos) ==
    LET d == getDistance(pos, trail.lastPoint)
        cd == trail.cumulativeDistance + d
    IN  [trail EXCEPT !.cumulativeDistance = cd,
                      !.points = << NewPoint(pos.x, pos.y, ColorHue(trail.baseHue, cd)) >> \o @,
                      !.lastPoint = pos]

AppendPoint(trail, pos) ==
    LET d == getDistance(pos, trail.lastPoint)
        cd == trail.cumulativeDistance + d
    IN  [trail EXCEPT !.cumulativeDistance = cd,
                      !.points = Append(@, NewPoint(pos.x, pos.y, ColorHue(trail.baseHue, cd))),
                      !.lastPoint = pos]

StaleKeys(m, trailId) == { k \in DOMAIN m : m[k] = trailId }

handleMove(e) ==
    LET trailId == ResolveTrailId(e)
        k == findTrailById(trailId)
        pos == getPos(e)
    IN  IF trailId = Null
        THEN UNCHANGED << trails, activeTrailsMap, isDrawingRef >>
        ELSE IF k = 0
        THEN /\ activeTrailsMap' = MapDelete(activeTrailsMap, StaleKeys(activeTrailsMap, trailId))
             /\ isDrawingRef' = IF DOMAIN activeTrailsMap' = {} THEN FALSE ELSE isDrawingRef
             /\ UNCHANGED trails
        ELSE IF TooClose(getDistance(pos, trails[k].lastPoint))
        THEN UNCHANGED << trails, activeTrailsMap, isDrawingRef >>
        ELSE /\ trails' = [trails EXCEPT ![k] = AppendPoint(@, pos)]
             /\ UNCHANGED << activeTrailsMap, isDrawingRef >>

\* ----------------------------------------------------- handleEnd (273-296)
ChangedIds(e) == { e.changedTouches[n].identifier : n \in 1 .. Len(e.changedTouches) }

\* Mutant of handleEnd: any pointer-up ends all drawing, as stopDrawing did
\* in the earlier variant.
handleEnd_ClearAll(e) ==
    /\ activeTrailsMap' = << >>
    /\ activeMouseTrailRef' = Null
    /\ isDrawingRef' = FALSE
    /\ UNCHANGED trails

\* The trail ids the pointers of an end event are bound to.
EndedTrailIds(e) ==
    IF e.isTouch
    THEN { activeTrailsMap[id] : id \in ChangedIds(e) \cap DOMAIN activeTrailsMap }
    ELSE { activeMouseTrailRef } \ { Null }

\* Mutant of handleEnd: the handler also takes the released pointer's trail
\* out of the registry.
handleEnd_DropsTrail(e) ==
    /\ IF e.isTouch
       THEN /\ activeTrailsMap' = MapDelete(activeTrailsMap, ChangedIds(e))
            /\ UNCHANGED activeMouseTrailRef
       ELSE /\ activeMouseTrailRef' = Null
            /\ UNCHANGED activeTrailsMap
    /\ isDrawingRef' = IF DOMAIN activeTrailsMap' = {} /\ activeMouseTrailRef' = Null
                       THEN FALSE ELSE isDrawingRef
    /\ trails' = SelectSeq(trails, LAMBDA t : t.trailId \notin EndedTrailIds(e))

handleEnd(e) ==
    /\ IF e.isTouch
       THEN /\ activeTrailsMap' = MapDelete(activeTrailsMap, ChangedIds(e))
            /\ UNCHANGED activeMouseTrailRef
       ELSE /\ activeMouseTrailRef' = Null
            /\ UNCHANGED activeTrailsMap
    /\ isDrawingRef' = IF DOMAIN activeTrailsMap' = {} /\ activeMouseTrailRef' = Null
                       THEN FALSE ELSE isDrawingRef
    /\ UNCHANGED trails

\* ------------------------------------------------- interpolation (47-72)
NumLimbs == 6
LimbBits == 15
LimbBase == 32768
FractionBits == 64
MantissaBits == 53

Limbs == 1 .. NumLimbs

MagZero == [i \in Limbs |-> 0]

\* The magnitude n, for 0 <= n < 2^31, in units.
MagOfInt(n) ==
    [i \in Limbs |-> IF i = 1 THEN n % LimbBase
                     ELSE IF i = 2 THEN (n \div LimbBase) % LimbBase
                     ELSE IF i = 3 THEN n \div (LimbBase * LimbBase)
                     ELSE 0]

RECURSIVE AddFrom(_, _, _, _)
AddFrom(a, b, i, carry) ==
    IF i > NumLimbs THEN << >>
    ELSE LET s == a[i] + b[i] + carry
         IN  << s % LimbBase >> \o AddFrom(a, b, i + 1, s \div LimbBase)

MagAdd(a, b) == AddFrom(a, b, 1, 0)

RECURSIVE SubFrom(_, _, _, _)
SubFrom(a, b, i, borrow) ==
    IF i > NumLimbs THEN << >>
    ELSE LET d == a[i] - b[i] - borrow
         IN  IF d < 0 THEN << d + LimbBase >> \o SubFrom(a, b, i + 1, 1)
                      ELSE << d >> \o SubFrom(a, b, i + 1, 0)

MagSub(a, b) == SubFrom(a, b, 1, 0)

MagLess(a, b) ==
    \E i \in Limbs : a[i] < b[i] /\ \A j \in (i + 1) .. NumLimbs : a[j] = b[j]

RECURSIVE MulFrom(_, _, _, _)
MulFrom(a, n, i, carry) ==
    IF i > NumLimbs THEN << >>
    ELSE LET s == a[i] * n + carry
         IN  << s % LimbBase >> \o MulFrom(a, n, i + 1, s \div LimbBase)

MagTimes(a, n) == MulFrom(a, n, 1, 0)

\* Quotient and remainder of a by n, long division from the top limb down.
RECURSIVE DivFrom(_, _, _, _)
DivFrom(a, n, i, rem) ==
    IF i < 1 THEN [quot |-> << >>, rem |-> rem]
    ELSE LET cur == rem * LimbBase + a[i]
             rest == DivFrom(a, n, i - 1, cur % n)
         IN  [quot |-> Append(rest.quot, cur \div n), rem |-> rest.rem]

MagDivide(a, n) == DivFrom(a, n, NumLimbs, 0)

ShiftLeftLimbs(a, w) == [i \in Limbs |-> IF i > w THEN a[i - w] ELSE 0]
ShiftRightLimbs(a, w) == [i \in Limbs |-> IF i + w <= NumLimbs THEN a[i + w] ELSE 0]

ShiftLeftBits(a, s) ==
    [i \in Limbs |-> ((a[i] * 2^s) % LimbBase)
                       + (IF i > 1 THEN a[i - 1] \div 2^(LimbBits - s) ELSE 0)]
ShiftRightBits(a, s) ==
    [i \in Limbs |-> (a[i] \div 2^s)
                       + (IF i < NumLimbs THEN (a[i + 1] % 2^s) * 2^(LimbBits - s) ELSE 0)]

ShiftLeft(a, k) == ShiftLeftBits(ShiftLeftLimbs(a, k \div LimbBits), k % LimbBits)
ShiftRight(a, k) == ShiftRightLimbs(ShiftRightBits(a, k % LimbBits), k \div LimbBits)

BitLength(a) ==
    IF a = MagZero THEN 0
    ELSE LET top == CHOOSE i \in Limbs : a[i] # 0 /\ \A j \in (i + 1) .. NumLimbs : a[j] = 0
             bits == CHOOSE b \in 1 .. LimbBits : 2^(b - 1) <= a[top] /\ a[top] < 2^b
         IN  (top - 1) * LimbBits + bits

\* The value of a one-element set: a value is computed once and then used
\* by name.
Only(S) == CHOOSE v \in S : TRUE

\* Round to nearest, ties to even, at MantissaBits significant bits; sticky
\* says that the exact value lies above a.
RoundAt(a, k, sticky) ==
    Only({ LET down == ShiftLeft(q, k)
               rem == MagSub(a, down)
               half == ShiftLeft(MagOfInt(1), k - 1)
               up == \/ MagLess(half, rem)
                     \/ rem = half /\ (sticky \/ q[1] % 2 = 1)
           IN  IF up THEN ShiftLeft(MagAdd(q, MagOfInt(1)), k) ELSE down
           : q \in { ShiftRight(a, k) } })

RoundMag(a, sticky) ==
    Only({ IF k <= 0 THEN a ELSE RoundAt(a, k, sticky)
           : k \in { BitLength(a) - MantissaBits } })

Num(neg, mag) == [neg |-> neg /\ mag # MagZero, mag |-> mag]

FromInt(n) == Num(n < 0, ShiftLeft(MagOfInt(IF n < 0 THEN -n ELSE n), FractionBits))

Negate(x) == Num(~x.neg, x.mag)

ExactSum(x, y) ==
    IF x.neg = y.neg THEN Num(x.neg, MagAdd(x.mag, y.mag))
    ELSE IF MagLess(x.mag, y.mag) THEN Num(y.neg, MagSub(y.mag, x.mag))
    ELSE Num(x.neg, MagSub(x.mag, y.mag))

Rounded(x) == Only({ Only({ Num(v.neg, m) : m \in { RoundMag(v.mag, FALSE) } }) : v \in { x } })

\* The program's x + y and x - y
DoubleAdd(x, y) == Only({ Rounded(ExactSum(a, b)) : a \in { x }, b \in { y } })
DoubleSub(x, y) == Only({ Rounded(ExactSum(a, Negate(b))) : a \in { x }, b \in { y } })
\* n * x for an integer n
DoubleTimes(n, x) ==
    Only({ Rounded(Num(a.neg # (n < 0), MagTimes(a.mag, IF n < 0 THEN -n ELSE n)))
           : a \in { x } })
\* x * (n / 2^s) for a natural n
DoubleScale(x, n, s) ==
    Only({ Rounded(Num(a.neg, ShiftRight(MagTimes(a.mag, n), s))) : a \in { x } })
\* n / d for integers 0 <= n, 0 < d
DoubleQuotient(n, d) ==
    Only({ Only({ Num(FALSE, m) : m \in { RoundMag(r.quot, r.rem # 0) } })
           : r \in { MagDivide(FromInt(n).mag, d) } })

\* Mutant of catmullRom: the weights of the two tangents in the t^2 term
\* are exchanged (- v0 - 2 * v1).
catmullRom_SwappedTangents(step, p0, p1, p2, p3) ==
    Only({ Only({ DoubleAdd(DoubleAdd(DoubleAdd(DoubleScale(a, step * step * step, 9),
                                                DoubleScale(b, step * step, 6)),
                                      DoubleScale(v0, step, 3)),
                            p1)
                  : a \in { DoubleAdd(DoubleAdd(DoubleSub(DoubleTimes(2, p1),
                                                          DoubleTimes(2, p2)), v0), v1) },
                    b \in { DoubleSub(DoubleSub(DoubleAdd(DoubleTimes(-3, p1),
                                                          DoubleTimes(3, p2)), v0),
                                      DoubleTimes(2, v1)) } })
           : v0 \in { DoubleScale(DoubleSub(p2, p0), 1, 1) },
             v1 \in { DoubleScale(DoubleSub(p3, p1), 1, 1) } })

\* catmullRom at t = step/segmentSteps, so t, t2 = t*t and t3 = t*t2 are the
\* exact doubles step/8, step^2/64 and step^3/512:
\*   v0 = (p2 - p0) * 0.5,  v1 = (p3 - p1) * 0.5,
\*   a = 2*p1 - 2*p2 + v0 + v1,  b = -3*p1 + 3*p2 - 2*v0 - v1,
\*   a*t3 + b*t2 + v0*t + p1,
\* every sum taken from left to right as in the expression at line 52.
catmullRom(step, p0, p1, p2, p3) ==
    Only({ Only({ DoubleAdd(DoubleAdd(DoubleAdd(DoubleScale(a, step * step * step, 9),
                                                DoubleScale(b, step * step, 6)),
                                      DoubleScale(v0, step, 3)),
                            p1)
                  : a \in { DoubleAdd(DoubleAdd(DoubleSub(DoubleTimes(2, p1),
                                                          DoubleTimes(2, p2)), v0), v1) },
                    b \in { DoubleSub(DoubleSub(DoubleAdd(DoubleTimes(-3, p1),
                                                          DoubleTimes(3, p2)),
                                                DoubleTimes(2, v0)), v1) } })
           : v0 \in { DoubleScale(DoubleSub(p2, p0), 1, 1) },
             v1 \in { DoubleScale(DoubleSub(p3, p1), 1, 1) } })

\* The double handleMove stores as a point's hue (264-265), for a base hue
\* in whole degrees and a whole cumulative distance.
ColorHueDouble(baseDegrees, cumulativeDistance) ==
    LET colorProgress == DoubleQuotient(cumulativeDistance % COLOR_PHASE_DISTANCE,
                                        COLOR_PHASE_DISTANCE)
    IN  Only({ IF MagLess(sum.mag, FromInt(FULL_CIRCLE).mag)
               THEN sum
               ELSE DoubleSub(sum, FromInt(FULL_CIRCLE))
               : sum \in { DoubleAdd(FromInt(baseDegrees),
                                     DoubleTimes(FULL_CIRCLE, colorProgress)) } })

\* The cumulative distance the trail had when its n-th stored point was
\* captured: every stored point but the first was captured at the distance
\* of its move from the point before it.
RECURSIVE DistanceAt(_, _)
DistanceAt(trail, n) ==
    IF n >= Len(trail.points) THEN trail.cumulativeDistance
    ELSE DistanceAt(trail, n + 1) - getDistance(trail.points[n + 1], trail.points[n])

\* The stored points of a trail with the doubles the program holds for them.
DoublePoints(trail) ==
    [n \in 1 .. Len(trail.points) |->
        [x |-> FromInt(trail.points[n].x),
         y |-> FromInt(trail.points[n].y),
         hue |-> ColorHueDouble(trail.baseHue \div HueScale, DistanceAt(trail, n)),
         alpha |-> trail.points[n].alpha]]

\* p1.alpha + (p2.alpha - p1.alpha) * t, times segmentSteps
LinearAlpha(step, p0, p1, p2, p3) == segmentSteps * p1 + (p2 - p1) * step

Clamp01(a) == Max(0, Min(AlphaScale * segmentSteps, a))

\* points is 1-based here; i is the 1-based index of the code's points[i].
\* InterpolatedAlpha reads the alpha field alone; getInterpolatedPoint takes
\* points whose x, y and hue are doubles.
InterpolatedAlpha(points, i, step) ==
    LET p0 == points[Max(1, i - 1)]
        p1 == points[i]
        p2 == points[Min(Len(points), i + 1)]
        p3 == points[Min(Len(points), i + 2)]
    IN  Clamp01(LinearAlpha(step, p0.alpha, p1.alpha, p2.alpha, p3.alpha))

getInterpolatedPoint(points, i, step) ==
    LET p0 == points[Max(1, i - 1)]
        p1 == points[i]
        p2 == points[Min(Len(points), i + 1)]
        p3 == points[Min(Len(points), i + 2)]
    IN  [x |-> catmullRom(step, p0.x, p1.x, p2.x, p3.x),
         y |-> catmullRom(step, p0.y, p1.y, p2.y, p3.y),
         hue |-> catmullRom(step, p0.hue, p1.hue, p2.hue, p3.hue),
         alpha |-> InterpolatedAlpha(points, i, step)]

\* ------------------------------------------------------- render (74-139)
\* Mutant of Fade: the decrement with its sign slipped.
Fade_SignSlip(alpha) == Max(alpha + FADE_SPEED, 0)

Fade(alpha) == Max(alpha - FADE_SPEED, 0)

\* age counts the render calls a stored point has been through; it is not a
\* field of the program, and nothing of the program reads it.
Older(p) == [p EXCEPT !.age = Min(@ + 1, AgeCap)]

\* Mutant of FadeTrail: the earlier variant's loop, which fades every point
\* but the last one (i < trail.length - 1).
FadeTrail_AllButLast(trail) ==
    IF Len(trail.points) < 2
    THEN trail
    ELSE [trail EXCEPT !.points = [n \in 1 .. Len(@) |->
            IF n < Len(@) THEN [@[n] EXCEPT !.alpha = Max(@ - FADE_SPEED, 0)] ELSE @[n]]]

FadeTrail(trail) ==
    IF Len(trail.points) < 2
    THEN trail
    ELSE [trail EXCEPT !.points = [n \in 1 .. Len(@) |-> [@[n] EXCEPT !.alpha = Fade(@)]]]

\* The alphas of the interpolated samples the drawing loop computes for one
\* (already faded) trail: start points at step 0..7, end points at step 1..8.
TrailSamples(trail) ==
    IF Len(trail.points) < 2
    THEN {}
    ELSE { InterpolatedAlpha(trail.points, i, step) :
             i \in { n \in 1 .. (Len(trail.points) - 1) : trail.points[n].alpha > 0 },
             step \in 0 .. segmentSteps }

\* Mutant of Alive: the comparison lets a point at alpha 0 stay.
Alive_OrZero(point) == point.alpha >= 0

Alive(point) == point.alpha > 0

\* Mutant of Survives: a trail is kept while it has any point.
Survives_NonEmpty(trail) == Len(trail.points) > 0

Survives(trail) == Len(trail.points) > 1

\* Mutant of Cleanup: the rebuilt record is written out field by field and
\* the travelled distance starts again from zero.
Cleanup_FreshRecord(ts) ==
    SelectSeq([k \in 1 .. Len(ts) |->
                 [points |-> SelectSeq(ts[k].points, Alive),
                  baseHue |-> ts[k].baseHue,
                  cumulativeDistance |-> 0,
                  lastPoint |-> ts[k].lastPoint,
                  trailId |-> ts[k].trailId]],
              Survives)

Cleanup(ts) ==
    SelectSeq([k \in 1 .. Len(ts) |-> [ts[k] EXCEPT !.points = SelectSeq(@, Alive)]],
              Survives)

render ==
    LET faded == [k \in 1 .. Len(trails) |-> FadeTrail(trails[k])]
        aged  == [k \in 1 .. Len(faded) |->
                    [faded[k] EXCEPT !.points = [n \in 1 .. Len(@) |-> Older(@[n])]]]
    IN  trails' = Cleanup(aged)

\* ------------------------------------------------ event wiring (299-307)
Ev(kind, src, ids, pos) ==
    [kind |-> kind, src |-> src, ids |-> ids, x |-> pos[1], y |-> pos[2]]

DownIds == { touches[n].identifier : n \in 1 .. Len(touches) }

\* The identifier a new contact gets: the lowest one no contact holds.
FreshTouchId ==
    IF TouchIds \ DownIds = {} THEN Null
    ELSE CHOOSE id \in TouchIds \ DownIds : \A other \in TouchIds \ DownIds : id <= other

\* Inputs arrive on frames that are multiples of InputPeriod.
InputWindow == frame = 0

StartBounded == trailIdCounterRef < MaxTrails

MoveBounded(e) ==
    LET k == findTrailById(ResolveTrailId(e))
    IN  k # 0 =>
          trails[k].cumulativeDistance + getDistance(getPos(e), trails[k].lastPoint)
            <= MaxDistance

MouseDownEvent(pos) ==
    /\ mounted
    /\ handleStart(MouseEvent(pos))
    /\ lastEvent' = Ev("start", "mouse", {}, pos)
    /\ UNCHANGED << touches, frame, loopVars, sample >>

MouseDown(pos) == InputWindow /\ StartBounded /\ MouseDownEvent(pos)

MouseMoveEvent(pos) ==
    /\ mounted
    /\ handleMove(MouseEvent(pos))
    /\ lastEvent' = Ev("move", "mouse", {}, pos)
    /\ UNCHANGED << hueRef, trailIdCounterRef, activeMouseTrailRef, touches, frame, loopVars, sample >>

MouseMove(pos) == InputWindow /\ MoveBounded(MouseEvent(pos)) /\ MouseMoveEvent(pos)

MouseUp ==
    /\ InputWindow /\ mounted
    /\ handleEnd(MouseEvent(<< 0, 0 >>))
    /\ lastEvent' = Ev("end", "mouse", {}, << 0, 0 >>)
    /\ UNCHANGED << hueRef, trailIdCounterRef, touches, frame, loopVars, sample >>

MouseLeave ==
    /\ InputWindow /\ mounted
    /\ handleEnd(MouseEvent(<< 0, 0 >>))
    /\ lastEvent' = Ev("leave", "mouse", {}, << 0, 0 >>)
    /\ UNCHANGED << hueRef, trailIdCounterRef, touches, frame, loopVars, sample >>

TouchStart(id, pos) ==
    /\ InputWindow /\ mounted /\ StartBounded
    /\ id = FreshTouchId
    /\ touches' = Append(touches, Touch(id, pos))
    /\ handleStart(TouchEvent(touches', << Touch(id, pos) >>))
    /\ lastEvent' = Ev("start", "touch", {id}, pos)
    /\ UNCHANGED << frame, loopVars, sample >>

TouchMove(id, pos) ==
    /\ InputWindow /\ mounted
    /\ id \in DownIds
    /\ touches' = [n \in 1 .. Len(touches) |->
                     IF touches[n].identifier = id THEN Touch(id, pos) ELSE touches[n]]
    /\ touches' # touches
    /\ MoveBounded(TouchEvent(touches', << Touch(id, pos) >>))
    /\ handleMove(TouchEvent(touches', << Touch(id, pos) >>))
    /\ lastEvent' = Ev("move", "touch", {id}, pos)
    /\ UNCHANGED << hueRef, trailIdCounterRef, activeMouseTrailRef, frame, loopVars, sample >>

TouchEnd(ids) ==
    /\ InputWindow /\ mounted
    /\ ids # {} /\ ids \subseteq DownIds
    /\ LET gone == SelectSeq(touches, LAMBDA t : t.identifier \in ids)
       IN  /\ touches' = SelectSeq(touches, LAMBDA t : t.identifier \notin ids)
           /\ handleEnd(TouchEvent(touches', gone))
    /\ lastEvent' = Ev("end", "touch", ids, << 0, 0 >>)
    /\ UNCHANGED << hueRef, trailIdCounterRef, frame, loopVars, sample >>

\* The browser runs a scheduled callback: render (74-139), whose last
\* statement schedules the next callback and stores its handle (138).
RenderCall ==
    /\ \E handle \in rafPending :
          /\ render
          /\ animationIdRef' = requestAnimationFrame(frame)
          /\ rafPending' = (rafPending \ { handle }) \cup { animationIdRef' }
    /\ frame' = (frame + 1) % InputPeriod
    /\ lastEvent' = Ev("tick", "none", {}, << 0, 0 >>)
    /\ UNCHANGED << hueRef, activeTrailsMap, activeMouseTrailRef,
                    trailIdCounterRef, isDrawingRef, touches, mounted >>

Tick == RenderCall /\ UNCHANGED sample

\* Mutant of Teardown: the earlier variant's cleanup, which hands the render
\* function to cancelAnimationFrame; no scheduled callback has that handle.
Teardown_CancelsCallback ==
    /\ mounted
    /\ mounted' = FALSE
    /\ rafPending' = cancelAnimationFrame(rafPending, Null)
    /\ lastEvent' = Ev("teardown", "none", {}, << 0, 0 >>)
    /\ UNCHANGED << trails, hueRef, activeTrailsMap, activeMouseTrailRef,
                    trailIdCounterRef, isDrawingRef, touches, frame, animationIdRef,
                    sample >>

\* The effect's cleanup function (143-147), run when the component unmounts;
\* the canvas and its handlers go with it.
Teardown ==
    /\ mounted
    /\ mounted' = FALSE
    /\ rafPending' = IF animationIdRef # Null /\ animationIdRef # 0
                     THEN cancelAnimationFrame(rafPending, animationIdRef)
                     ELSE rafPending
    /\ lastEvent' = Ev("teardown", "none", {}, << 0, 0 >>)
    /\ UNCHANGED << trails, hueRef, activeTrailsMap, activeMouseTrailRef,
                    trailIdCounterRef, isDrawingRef, touches, frame, animationIdRef,
                    sample >>

Next ==
    \/ \E pos \in StartPositions : MouseDown(pos)
    \/ \E pos \in Positions : MouseMove(pos)
    \/ MouseUp
    \/ MouseLeave
    \/ \E id \in TouchIds, pos \in StartPositions : TouchStart(id, pos)
    \/ \E id \in TouchIds, pos \in Positions : TouchMove(id, pos)
    \/ \E ids \in SUBSET TouchIds : TouchEnd(ids)
    \/ Tick

Spec == Init /\ [][Next]_vars

\* A second environment: the mouse alone, one gesture at a time, for as many
\* gestures as it takes the hue anchor to go round the circle.
HueStartBounded == trailIdCounterRef < MaxHueTrails /\ Len(trails) < MaxHueLive

HueMouseDown(pos) == InputWindow /\ HueStartBounded /\ MouseDownEvent(pos)

NextHue ==
    \/ \E pos \in StartPositions : HueMouseDown(pos)
    \/ \E pos \in Positions : MouseMove(pos)
    \/ MouseUp
    \/ MouseLeave
    \/ Tick

SpecHue == Init /\ [][NextHue]_vars

\* The handlers alone, on one mouse gesture whose events all arrive within
\* one frame, after any number of earlier gestures have faded away: long
\* moves, and moves of exactly MIN_DISTANCE.
AfterGestures(n) ==
    /\ trails = << >>
    /\ hueRef = (n * HUE_STEP * HueScale) % (FULL_CIRCLE * HueScale)
    /\ activeTrailsMap = << >>
    /\ activeMouseTrailRef = Null
    /\ trailIdCounterRef = n
    /\ isDrawingRef = FALSE
    /\ touches = << >>
    /\ frame = 0
    /\ lastEvent = [kind |-> "init", src |-> "none", ids |-> {}, x |-> 0, y |-> 0]
    /\ animationIdRef = FirstHandle
    /\ rafPending = { FirstHandle }
    /\ mounted = TRUE
    /\ sample = NoSample

InitFar == \E n \in 0 .. FarMaxPrior : AfterGestures(n)

GestureStarted == trails # << >>

PointsBounded(maxPoints) ==
    LET k == findTrailById(activeMouseTrailRef)
    IN  k # 0 => Len(trails[k].points) < maxPoints

FarDown(pos) == ~GestureStarted /\ MouseDownEvent(pos)

FarMove(pos) == PointsBounded(FarMaxPoints) /\ MouseMoveEvent(pos)

FarUp == GestureStarted /\ MouseUp

NextFar ==
    \/ \E pos \in StartPositions : FarDown(pos)
    \/ \E pos \in FarPositions : FarMove(pos)
    \/ FarUp

SpecFar == InitFar /\ [][NextFar]_vars

\* One mouse gesture and then one render call, observed at one iteration of
\* its drawing loop: sample records, for segment i of trail k and one step
\* of the inner loop, the points the loop reads, which the same call has
\* faded just before (83-85), the two calls getInterpolatedPoint(points, i,
\* t) and getInterpolatedPoint(points, i, nextT) (99-100), and whether the
\* pair is drawn (102).  The loop passes a trail of fewer than two points
\* (80) and a segment whose first point has faded out (91).
InterpMove(pos) ==
    sample = NoSample /\ PointsBounded(InterpMaxPoints) /\ MouseMoveEvent(pos)

Interpolate(k, i, step) ==
    /\ mounted
    /\ sample = NoSample
    /\ k \in 1 .. Len(trails)
    /\ Len(trails[k].points) >= 2
    /\ i \in 1 .. (Len(trails[k].points) - 1)
    /\ FadeTrail(trails[k]).points[i].alpha > 0
    /\ RenderCall
    /\ \E points \in { DoublePoints(FadeTrail(trails[k])) } :
          \E startPoint \in { getInterpolatedPoint(points, i, step) } :
             \E endPoint \in { getInterpolatedPoint(points, i, step + 1) } :
                sample' = [points |-> points, i |-> i, step |-> step,
                           startPoint |-> startPoint, endPoint |-> endPoint,
                           drawn |-> ~(startPoint.alpha <= 0 \/ endPoint.alpha <= 0)]

NextInterp ==
    \/ \E pos \in StartPositions : FarDown(pos)
    \/ \E pos \in InterpPositions : InterpMove(pos)
    \/ \E i \in 1 .. InterpMaxPoints, step \in 0 .. (segmentSteps - 1) :
          Interpolate(1, i, step)

SpecInterp == InitFar /\ [][NextInterp]_vars

\* The handlers alone again, on one long mouse gesture that goes back and
\* forth between two positions within one frame.
CapMove(pos) == PointsBounded(CapMaxPoints) /\ MouseMoveEvent(pos)

NextCap ==
    \/ \E pos \in StartPositions : FarDown(pos)
    \/ \E pos \in Positions : CapMove(pos)
    \/ FarUp

SpecCap == Init /\ [][NextCap]_vars

\* A fifth environment: the first one, in which the component can unmount
\* on any frame.
NextLoop ==
    \/ Next
    \/ Teardown

SpecLoop == Init /\ [][NextLoop]_vars

\* ============================================================== properties
\* In Spec, SpecHue and SpecLive every reachable state takes a step (a
\* callback is always scheduled, so Tick is enabled, and Tick changes the
\* state), so a state predicate required of the first state of every step
\* is required of every reachable state.
IsTouchBound(id) == id \in DOMAIN activeTrailsMap

TouchBindingsKept(except) ==
    \A other \in (DOMAIN activeTrailsMap) \ except :
        /\ other \in DOMAIN activeTrailsMap'
        /\ activeTrailsMap'[other] = activeTrailsMap[other]

\* ---------------------------------------------------------------------- C1
\* C1: multi-pointer isolation.  A touch start creates a trail bound to the
\* identifier of the contact that went down and keeps the other contacts'
\* bindings; a touch move changes no trail but the one bound to the contact
\* that moved; a touch end leaves every trail and the other contacts'
\* bindings unchanged.
C1_Step ==
    LET ev == lastEvent'
    IN  /\ (ev.kind = "start" /\ ev.src = "touch") =>
              \A id \in ev.ids :
                  /\ id \in DOMAIN activeTrailsMap'
                  /\ activeTrailsMap'[id] = trailIdCounterRef
                  /\ TouchBindingsKept({id})
        /\ (ev.kind = "move" /\ ev.src = "touch") =>
              \A id \in ev.ids : \A k \in 1 .. Len(trails) :
                  (~IsTouchBound(id) \/ trails[k].trailId # activeTrailsMap[id])
                      => (k <= Len(trails') /\ trails'[k] = trails[k])
        /\ (ev.kind = "end" /\ ev.src = "touch") =>
              /\ trails' = trails
              /\ TouchBindingsKept(ev.ids)

C1_MultiPointerIsolation == [][C1_Step]_vars

\* ---------------------------------------------------------------------- C2
\* C2: a move event of a bound pointer whose trail has left the registry
\* clears that pointer's binding and appends nothing.
C2_Step ==
    LET ev == lastEvent'
    IN  ev.kind = "move" =>
          /\ (ev.src = "mouse" /\ activeMouseTrailRef # Null
                /\ findTrailById(activeMouseTrailRef) = 0)
               => (activeMouseTrailRef' = Null /\ trails' = trails)
          /\ ev.src = "touch" =>
               \A id \in ev.ids :
                   (IsTouchBound(id) /\ findTrailById(activeTrailsMap[id]) = 0)
                     => (id \notin DOMAIN activeTrailsMap' /\ trails' = trails)

C2_StaleBindingCleared == [][C2_Step]_vars

\* ---------------------------------------------------------------------- C3
\* C3: the is-drawing flag is true exactly when some binding exists (a
\* touch-map entry or a non-empty mouse slot).
C3_DrawingIffBound ==
    isDrawingRef <=> (DOMAIN activeTrailsMap # {} \/ activeMouseTrailRef # Null)

\* ---------------------------------------------------------------------- C4
\* C4: a stored point that has been through N render calls has alpha
\* max(1 - 0.006*N, 0), which is positive, so N <= 166; a tick keeps a trail
\* exactly when at least two of its points have been through at most 165
\* calls before it, keeps exactly those points, and drops the others: a trail
\* left alone after pointer-down is present after 166 ticks and absent after
\* the 167th.
PointOnSchedule(p) ==
    /\ p.alpha = Max(AlphaScale - FADE_SPEED * p.age, 0)
    /\ p.alpha > 0
    /\ p.age <= 166

C4_Inv ==
    \A k \in 1 .. Len(trails) : \A n \in 1 .. Len(trails[k].points) :
        PointOnSchedule(trails[k].points[n])

Young(p) == p.age <= 165

C4_Tick ==
    lastEvent'.kind = "tick" =>
        \A k \in 1 .. Len(trails) :
            LET kept == SelectSeq(trails[k].points, Young)
                k2 == TrailIndex(trails', trails[k].trailId)
            IN  IF Len(kept) >= 2
                THEN /\ k2 # 0
                     /\ Len(trails'[k2].points) = Len(kept)
                     /\ \A n \in 1 .. Len(kept) :
                           /\ trails'[k2].points[n].age = kept[n].age + 1
                           /\ trails'[k2].points[n].x = kept[n].x
                           /\ trails'[k2].points[n].y = kept[n].y
                ELSE k2 = 0

C4_FadeSchedule == [][C4_Inv /\ C4_Tick]_vars

\* A trail left alone since pointer-down, on the last frame it is stored.
C4_Witness ==
    \E k \in 1 .. Len(trails) :
        /\ Len(trails[k].points) = 2
        /\ trails[k].points[1].age = 166 /\ trails[k].points[1].alpha = 4
        /\ trails[k].points[2].age = 166 /\ trails[k].points[2].alpha = 4

\* ---------------------------------------------------------------------- C5
\* C5: an identifier that has been handed out and is not in the registry is
\* not in the registry after any step either, and the identifiers in the
\* registry are pairwise different and below the counter: a removed trail
\* never reappears and its identifier is never given to another trail.
C5_Inv ==
    /\ \A k \in 1 .. Len(trails) : trails[k].trailId \in 0 .. (trailIdCounterRef - 1)
    /\ \A j, k \in 1 .. Len(trails) : trails[j].trailId = trails[k].trailId => j = k

C5_Step ==
    \A id \in 0 .. (trailIdCounterRef - 1) :
        TrailIndex(trails, id) = 0 => TrailIndex(trails', id) = 0

C5_RemovedStaysRemoved == [][C5_Inv /\ C5_Step]_vars

\* A pointer-down handled after the first trail was removed by cleanup.
C5_Witness ==
    /\ trailIdCounterRef = 2
    /\ TrailIndex(trails, 0) = 0
    /\ TrailIndex(trails, 1) # 0
    /\ lastEvent.kind = "start"
\* ---------------------------------------------------------------------- C6
\* C6: every stored alpha lies in [0,1]; a point that is stored before and
\* after a step has not gained alpha, and a point stored by the step has
\* alpha 1; every interpolated sample the render call computes from the
\* state has alpha in [0,1].
C6_Inv ==
    \A k \in 1 .. Len(trails) :
        /\ \A n \in 1 .. Len(trails[k].points) :
              trails[k].points[n].alpha \in 0 .. AlphaScale
        /\ \A faded \in { FadeTrail(trails[k]) } :
              \A a \in TrailSamples(faded) : a >= 0 /\ a <= AlphaScale * segmentSteps

\* Cleanup drops the oldest points and an event appends at the end, so the
\* n-th point after a step is the (n + dropped)-th point before it.
C6_Step ==
    \A k2 \in 1 .. Len(trails') :
        \A new \in { trails'[k2].points } :
            \A k \in { TrailIndex(trails, trails'[k2].trailId) } :
                IF k = 0
                THEN \A n \in 1 .. Len(new) : new[n].alpha = AlphaScale
                ELSE \A old \in { trails[k].points } :
                       \A dropped \in { IF lastEvent'.kind = "tick"
                                        THEN Len(old) - Len(new) ELSE 0 } :
                           /\ dropped >= 0
                           /\ \A n \in 1 .. Len(new) :
                                 IF n + dropped <= Len(old)
                                 THEN /\ new[n].alpha <= old[n + dropped].alpha
                                      /\ new[n].x = old[n + dropped].x
                                      /\ new[n].y = old[n + dropped].y
                                 ELSE new[n].alpha = AlphaScale

C6_AlphaBoundedNonIncreasing == [][C6_Inv /\ C6_Step]_vars

\* A trail that holds a faded point and a fresh one.
C6_Witness ==
    \E k \in 1 .. Len(trails) :
        /\ Len(trails[k].points) = 3
        /\ trails[k].points[1].alpha < AlphaScale
        /\ trails[k].points[3].alpha = AlphaScale

\* ---------------------------------------------------------------------- C7
\* C7: a pointer-up (mouse up, mouse leave, touch end) unbinds the pointers
\* that ended and changes nothing else: the other bindings, every trail, the
\* hue anchor and the id counter are as before.
C7_Step ==
    LET ev == lastEvent'
    IN  (ev.kind = "end" \/ ev.kind = "leave") =>
          /\ trails' = trails
          /\ hueRef' = hueRef
          /\ trailIdCounterRef' = trailIdCounterRef
          /\ IF ev.src = "mouse"
             THEN /\ activeMouseTrailRef' = Null
                  /\ activeTrailsMap' = activeTrailsMap
             ELSE /\ activeMouseTrailRef' = activeMouseTrailRef
                  /\ DOMAIN activeTrailsMap' = (DOMAIN activeTrailsMap) \ ev.ids
                  /\ TouchBindingsKept(ev.ids)

C7_EndRemovesOnlyBinding == [][C7_Step]_vars

\* A touch end handled while the mouse is bound: the contact's binding is
\* gone, the mouse's binding and both trails are still there.
C7_Witness ==
    /\ lastEvent.kind = "end" /\ lastEvent.src = "touch"
    /\ activeMouseTrailRef # Null
    /\ DOMAIN activeTrailsMap = {}
    /\ Len(trails) = 2
    /\ TrailIndex(trails, activeMouseTrailRef) # 0

\* ---------------------------------------------------------------------- C8
\* C8: a move event of a pointer that has no binding changes no trail, no
\* binding, not the hue anchor, not the id counter and not the is-drawing
\* flag.
C8_Step ==
    LET ev == lastEvent'
        unbound == IF ev.src = "mouse"
                   THEN activeMouseTrailRef = Null
                   ELSE \A id \in ev.ids : ~IsTouchBound(id)
    IN  (ev.kind = "move" /\ unbound) =>
          UNCHANGED << trails, activeTrailsMap, activeMouseTrailRef,
                       hueRef, trailIdCounterRef, isDrawingRef >>

C8_UnboundMoveIgnored == [][C8_Step]_vars

\* ---------------------------------------------------------------------- C9
\* C9: a pointer-down appends one trail to the registry and changes no other:
\* two points at the event position with alpha 1 and the base hue, cumulative
\* distance 0, last position the event position, identifier the previous
\* counter value; identifiers in the registry are pairwise different.
C9_Step ==
    LET ev == lastEvent'
    IN  ev.kind = "start" =>
          /\ Len(trails') = Len(trails) + 1
          /\ SubSeq(trails', 1, Len(trails)) = trails
          /\ LET t == trails'[Len(trails')]
             IN  /\ Len(t.points) = 2
                 /\ \A n \in 1 .. 2 :
                       /\ t.points[n].x = ev.x /\ t.points[n].y = ev.y
                       /\ t.points[n].alpha = AlphaScale
                       /\ t.points[n].hue = t.baseHue
                 /\ t.cumulativeDistance = 0
                 /\ t.lastPoint = [x |-> ev.x, y |-> ev.y]
                 /\ t.trailId = trailIdCounterRef
                 /\ trailIdCounterRef' = trailIdCounterRef + 1

C9_StartCreatesTrail == [][C5_Inv /\ C9_Step]_vars

\* --------------------------------------------------------------------- C10
\* C10: a pointer-down sets the anchor to (anchor + 30) mod 360 and gives the
\* new trail that base hue; no other step changes the anchor; the n-th trail
\* created (identifier n-1) has base hue (30*n) mod 360, and trails created
\* one after the other have different base hues.
C10_Inv ==
    /\ hueRef = ((HUE_STEP * trailIdCounterRef) % FULL_CIRCLE) * HueScale
    /\ \A k \in 1 .. Len(trails) :
          trails[k].baseHue = ((HUE_STEP * (trails[k].trailId + 1)) % FULL_CIRCLE) * HueScale
    /\ \A j, k \in 1 .. Len(trails) :
          trails[k].trailId = trails[j].trailId + 1 => trails[k].baseHue # trails[j].baseHue

C10_Step ==
    IF lastEvent'.kind = "start"
    THEN /\ hueRef' = (hueRef + HUE_STEP * HueScale) % (FULL_CIRCLE * HueScale)
         /\ trails'[Len(trails')].baseHue = hueRef'
    ELSE hueRef' = hueRef

C10_HueCycle == [][C10_Inv /\ C10_Step]_vars

\* The 12th and 13th trails, created after the anchor went round the circle.
C10_Witness ==
    /\ Len(trails) = 2
    /\ trails[1].trailId = 11 /\ trails[1].baseHue = 0
    /\ trails[2].trailId = 12 /\ trails[2].baseHue = HUE_STEP * HueScale

\* C14: teardown cancels the pending scheduled tick.  Whatever the frame on
\* which the component unmounts, the step that unmounts it leaves no
\* callback scheduled, and from an unmounted state no render callback runs.
C14_Step ==
    /\ (mounted /\ ~mounted') => rafPending' = {}
    /\ ~mounted => lastEvent'.kind # "tick"

C14_TeardownCancelsTick == [][C14_Step]_vars

\* The component was unmounted after ticks had run, with a trail still fading.
C14_Witness ==
    /\ ~mounted
    /\ lastEvent.kind = "teardown"
    /\ frame > 1
    /\ trails # << >>

\* --------------------------------------------------------------------- C11
\* The trail the pointer of event ev is bound to before the event (Null when
\* it has no binding), and the square of the distance from the event
\* position to a trail's last recorded position.
PointerTrailId(ev) ==
    IF ev.src = "mouse" THEN activeMouseTrailRef
    ELSE IF \E id \in ev.ids : IsTouchBound(id)
         THEN activeTrailsMap[CHOOSE id \in ev.ids : IsTouchBound(id)]
         ELSE Null

SquaredDistance(ev, trail) ==
    (ev.x - trail.lastPoint.x) * (ev.x - trail.lastPoint.x)
      + (ev.y - trail.lastPoint.y) * (ev.y - trail.lastPoint.y)

\* C11: a move event of a bound pointer with a live trail, at a distance
\* below MIN_DISTANCE from the trail's last recorded position, stores no
\* point and leaves the trail's cumulative distance and last recorded
\* position as they were.
C11_Step ==
    LET ev == lastEvent'
        k == TrailIndex(trails, PointerTrailId(ev))
    IN  (/\ ev.kind = "move"
         /\ k # 0
         /\ SquaredDistance(ev, trails[k]) < MIN_DISTANCE * MIN_DISTANCE) =>
          /\ Len(trails') = Len(trails)
          /\ trails'[k].points = trails[k].points
          /\ trails'[k].cumulativeDistance = trails[k].cumulativeDistance
          /\ trails'[k].lastPoint = trails[k].lastPoint

C11_MinDistanceFilter == [][C11_Step]_vars

\* A mouse move handled at the last recorded position of the mouse's trail,
\* after an accepted move: the trail still holds its three points.
C11_Witness ==
    /\ lastEvent.kind = "move" /\ lastEvent.src = "mouse"
    /\ \E k \in 1 .. Len(trails) :
         /\ trails[k].trailId = activeMouseTrailRef
         /\ trails[k].lastPoint = [x |-> lastEvent.x, y |-> lastEvent.y]
         /\ trails[k].cumulativeDistance > 0
         /\ Len(trails[k].points) = 3
         /\ trails[k].points[3].age > 0

\* --------------------------------------------------------------------- C12
\* C12: the hue of the point an accepted move appends is
\* (baseHue + 360 * ((D mod 800) / 800)) mod 360, D being the trail's
\* cumulative distance after the move.  In units of 1/HueScale degree and
\* without division: the hue lies in [0, 360) and, up to one full turn,
\* COLOR_PHASE_DISTANCE * (hue - baseHue) = 360 * (D mod COLOR_PHASE_DISTANCE).
\* So D = k * 800 gives baseHue, and one move of 850 from the start gives
\* baseHue + 22.5 degrees, modulo 360.
C12_Step ==
    LET ev == lastEvent'
        k == TrailIndex(trails, PointerTrailId(ev))
        turn == FULL_CIRCLE * HueScale
    IN  (/\ ev.kind = "move"
         /\ k # 0
         /\ SquaredDistance(ev, trails[k]) >= MIN_DISTANCE * MIN_DISTANCE) =>
          LET D == trails'[k].cumulativeDistance
              base == trails'[k].baseHue
              hue == trails'[k].points[Len(trails'[k].points)].hue
          IN  /\ Len(trails'[k].points) = Len(trails[k].points) + 1
              /\ hue \in 0 .. (turn - 1)
              /\ \E turns \in { 0, 1 } :
                    COLOR_PHASE_DISTANCE * (hue + turns * turn - base)
                      = turn * (D % COLOR_PHASE_DISTANCE)
              /\ (\E n \in 1 .. 4 : D = n * COLOR_PHASE_DISTANCE) => hue = base % turn
              /\ (D = 850 /\ Len(trails[k].points) = 2) =>
                    hue = (base + (45 * HueScale) \div 2) % turn

C12_HueFromDistance == [][C12_Step]_vars

\* A gesture that went 800 pixels and then 50 more: the point stored at 800
\* has the base hue, the point stored at 850 is 22.5 degrees further.
C12_Witness ==
    /\ lastEvent.kind = "move"
    /\ Len(trails) = 1
    /\ Len(trails[1].points) = 4
    /\ trails[1].cumulativeDistance = 850
    /\ trails[1].baseHue = 330 * HueScale
    /\ trails[1].points[3].hue = trails[1].baseHue
    /\ trails[1].points[4].hue = (trails[1].baseHue + 450) % (FULL_CIRCLE * HueScale)

\* --------------------------------------------------------------------- C13
\* The registry's trail identifiers, in registry order.
TrailIds(ts) == [k \in 1 .. Len(ts) |-> ts[k].trailId]

\* C13: over every event and every tick, a trail that stays in the registry
\* keeps its identifier and its base hue, and its cumulative distance does
\* not decrease.  A trail is followed by its place in the registry: an
\* event leaves every trail at its index, and a tick leaves the survivors
\* in their order.
C13_Step ==
    LET kept == { k \in 1 .. Len(trails) :
                    \E j \in 1 .. Len(trails') : trails'[j].trailId = trails[k].trailId }
    IN  /\ lastEvent'.kind # "tick" => kept = 1 .. Len(trails)
        /\ SubSeq(TrailIds(trails'), 1, Cardinality(kept))
             = SelectSeq(TrailIds(trails),
                         LAMBDA id : \E k \in kept : trails[k].trailId = id)
        /\ \A k \in kept :
             \A j \in 1 .. Len(trails') :
                trails'[j].trailId = trails[k].trailId =>
                  /\ trails'[j].baseHue = trails[k].baseHue
                  /\ trails'[j].cumulativeDistance >= trails[k].cumulativeDistance

C13_TrailAttributesStable == [][C5_Inv /\ C13_Step]_vars

\* A trail that has travelled, in the registry behind a trail that a tick
\* has since removed: cleanup has rebuilt its record many times.
C13_Witness ==
    /\ lastEvent.kind = "tick"
    /\ Len(trails) = 1
    /\ trails[1].trailId = 1
    /\ trails[1].cumulativeDistance > 0
    /\ trails[1].points[1].age > InputPeriod

\* --------------------------------------------------------------------- C15
\* The mouse alone, pressed, moved, released and pressed again at will.  The
\* render callback reschedules itself on every run (138), and the browser
\* runs a scheduled callback on its next frame: while the component is
\* mounted a tick is always enabled and is eventually taken.
NextLive ==
    \/ \E pos \in StartPositions : MouseDown(pos)
    \/ \E pos \in Positions : MouseMove(pos)
    \/ MouseUp
    \/ MouseLeave
    \/ Tick

SpecLive == Init /\ [][NextLive]_vars /\ WF_vars(Tick)

InRegistry(trailId) == TrailIndex(trails, trailId) # 0

\* C15: if ticks keep occurring, every trail that stops receiving points is
\* eventually removed from the registry.  A trail receives a point only
\* from a move of the pointer bound to it, and in every behaviour it
\* receives finitely many, so the claim is that a trail in the registry
\* eventually is not.
C15_FadeEmptiesEveryTrail ==
    \A trailId \in 0 .. (MaxTrails - 1) : InRegistry(trailId) ~> ~InRegistry(trailId)

\* A trail whose pointer was released is gone while a later trail, which
\* was in the registry with it, is still fading.
C15_Witness ==
    /\ lastEvent.kind = "tick"
    /\ trailIdCounterRef = MaxTrails
    /\ ~InRegistry(0)
    /\ InRegistry(1)
    /\ trails[1].points[1].age > InputPeriod

\* --------------------------------------------------------------------- C16
\* A move of a bound pointer with a live trail that the distance filter lets
\* through; k is the trail's index.
AcceptedMove(ev, k) ==
    /\ ev.kind = "move"
    /\ k # 0
    /\ k = TrailIndex(trails, PointerTrailId(ev))
    /\ SquaredDistance(ev, trails[k]) >= MIN_DISTANCE * MIN_DISTANCE

\* C16: no trail ever holds more than PointCap points, and appending to a
\* trail that holds PointCap points evicts its oldest point.
C16_Step ==
    /\ \A k \in 1 .. Len(trails') : Len(trails'[k].points) <= PointCap
    /\ \A k \in 1 .. Len(trails) :
         (AcceptedMove(lastEvent', k) /\ Len(trails[k].points) = PointCap) =>
            /\ Len(trails'[k].points) = PointCap
            /\ SubSeq(trails'[k].points, 1, PointCap - 1) = Tail(trails[k].points)

C16_HardCap == [][C16_Step]_vars

\* C16 as amended: trail length has no cap.  An accepted move on a trail
\* that holds PointCap points or more evicts nothing: every stored point
\* stays where it is in the sequence and the new one comes after them.
C16_AmendedStep ==
    \A k \in 1 .. Len(trails) :
       (AcceptedMove(lastEvent', k) /\ Len(trails[k].points) >= PointCap) =>
          /\ Len(trails'[k].points) = Len(trails[k].points) + 1
          /\ SubSeq(trails'[k].points, 1, Len(trails[k].points)) = trails[k].points

C16_NoCapNoEviction == [][C16_AmendedStep]_vars

\* A trail of PointCap + 1 points, the first of them still the point the
\* pointer-down stored.
C16_Witness ==
    /\ lastEvent.kind = "move"
    /\ Len(trails) = 1
    /\ Len(trails[1].points) = PointCap + 1
    /\ trails[1].points[1].hue = trails[1].baseHue
    /\ trails[1].points[PointCap + 1].hue # trails[1].baseHue

\* --------------------------------------------------------------------- C18
\* C18: the tick is the single authority for destruction.  A step of a
\* pointer handler (start, move, end, leave) leaves every trail at its place
\* in the registry and every stored point, alpha included, at its place in
\* its trail; trails and points are only ever added by it.
C18_Step ==
    lastEvent'.kind \in { "start", "move", "end", "leave" } =>
       /\ Len(trails') >= Len(trails)
       /\ \A k \in 1 .. Len(trails) :
            /\ trails'[k].trailId = trails[k].trailId
            /\ Len(trails'[k].points) >= Len(trails[k].points)
            /\ SubSeq(trails'[k].points, 1, Len(trails[k].points)) = trails[k].points

C18_OnlyTickDestroys == [][C18_Step]_vars

\* The mouse was released over a trail that had partly faded and had
\* received a point since: all three points are still stored.
C18_Witness ==
    /\ lastEvent.kind = "end" /\ lastEvent.src = "mouse"
    /\ activeMouseTrailRef = Null
    /\ \E k \in 1 .. Len(trails) :
         /\ Len(trails[k].points) = 3
         /\ trails[k].points[1].alpha < AlphaScale
         /\ trails[k].points[3].alpha = AlphaScale

\* --------------------------------------------------------------------- C19
\* C19: an accepted move appends exactly one point to the end of the
\* pointer's trail, at the event position and with alpha 1; the trail's
\* cumulative distance grows by the distance d to the last recorded
\* position, which becomes the event position; every other trail and every
\* binding stays as it was.
C19_Step ==
    LET ev == lastEvent'
    IN  \A k \in 1 .. Len(trails) :
           AcceptedMove(ev, k) =>
             LET old == trails[k]
                 new == trails'[k]
                 n == Len(old.points)
                 added == new.cumulativeDistance - old.cumulativeDistance
             IN  /\ Len(trails') = Len(trails)
                 /\ Len(new.points) = n + 1
                 /\ SubSeq(new.points, 1, n) = old.points
                 /\ new.points[n + 1].x = ev.x
                 /\ new.points[n + 1].y = ev.y
                 /\ new.points[n + 1].alpha = AlphaScale
                 /\ added >= MIN_DISTANCE
                 /\ added * added = SquaredDistance(ev, old)
                 /\ new.lastPoint = [x |-> ev.x, y |-> ev.y]
                 /\ new.baseHue = old.baseHue
                 /\ new.trailId = old.trailId
                 /\ \A j \in (1 .. Len(trails)) \ { k } : trails'[j] = trails[j]
                 /\ UNCHANGED << activeTrailsMap, activeMouseTrailRef >>

C19_AcceptedMoveAppends == [][C19_Step]_vars

\* A touch contact's accepted move, with the mouse bound to another trail
\* that has partly faded.
C19_Witness ==
    /\ lastEvent.kind = "move" /\ lastEvent.src = "touch"
    /\ Len(trails) = 2
    /\ activeMouseTrailRef = trails[1].trailId
    /\ trails[1].points[1].alpha < AlphaScale
    /\ \E id \in DOMAIN activeTrailsMap : activeTrailsMap[id] = trails[2].trailId
    /\ Len(trails[2].points) = 3
    /\ trails[2].cumulativeDistance > 0
    /\ trails[2].lastPoint = [x |-> lastEvent.x, y |-> lastEvent.y]
    /\ trails[2].points[3].age = 0

\* --------------------------------------------------------------------- C20
\* C20: in every reachable state every trail in the registry holds at least
\* two points and every stored point has alpha above 0; so render's early
\* return for a trail of fewer than two points (80) is never taken and no
\* registered trail misses a fade.
C20_RegistryWellFormed ==
    \A k \in 1 .. Len(trails) :
       /\ Len(trails[k].points) >= 2
       /\ \A n \in 1 .. Len(trails[k].points) : trails[k].points[n].alpha > 0
       /\ FadeTrail(trails[k]) # trails[k]

\* A tick has left a trail whose two oldest points are at their last
\* positive alpha and whose newest point is not: the next cleanup leaves it
\* one live point.
C20_Witness ==
    /\ lastEvent.kind = "tick"
    /\ \E k \in 1 .. Len(trails) :
         /\ Len(trails[k].points) = 3
         /\ trails[k].points[1].alpha <= FADE_SPEED
         /\ trails[k].points[2].alpha <= FADE_SPEED
         /\ trails[k].points[3].alpha > FADE_SPEED

\* --------------------------------------------------------------------- C17
SameDouble(a, b) == a.neg = b.neg /\ a.mag = b.mag

\* |a - b| <= 2^-bits
WithinPowerOfTwo(a, b, bits) ==
    ~MagLess(ShiftLeft(MagOfInt(1), FractionBits - bits), ExactSum(a, Negate(b)).mag)

\* C17: for every point sequence of length >= 2 and every anchor index
\* (the clamped first and last segments included), getInterpolatedPoint at
\* t = 0 returns exactly the x, y and hue of points[i], and at t = 1 exactly
\* the x, y and hue of points[i+1].  The drawing loop makes the call at
\* t = 0 as the start point of its first step and the call at t = 1 as the
\* end point of its last step.
C17_InterpolationEndpoints ==
    sample # NoSample =>
       LET from == sample.points[sample.i]
           to == sample.points[sample.i + 1]
       IN  /\ sample.step = 0 =>
                /\ SameDouble(sample.startPoint.x, from.x)
                /\ SameDouble(sample.startPoint.y, from.y)
                /\ SameDouble(sample.startPoint.hue, from.hue)
           /\ sample.step + 1 = segmentSteps =>
                /\ SameDouble(sample.endPoint.x, to.x)
                /\ SameDouble(sample.endPoint.y, to.y)
                /\ SameDouble(sample.endPoint.hue, to.hue)

\* C17 as amended: at t = 0 the x, y and hue of points[i] exactly; at t = 1
\* the x and y of points[i+1] exactly, for whole-pixel coordinates, and the
\* hue of points[i+1] up to the rounding of the arithmetic, within 2^-36
\* of a degree.
C17_EndpointsUpToRounding ==
    sample # NoSample =>
       LET from == sample.points[sample.i]
           to == sample.points[sample.i + 1]
       IN  /\ sample.step = 0 =>
                /\ SameDouble(sample.startPoint.x, from.x)
                /\ SameDouble(sample.startPoint.y, from.y)
                /\ SameDouble(sample.startPoint.hue, from.hue)
           /\ sample.step + 1 = segmentSteps =>
                /\ SameDouble(sample.endPoint.x, to.x)
                /\ SameDouble(sample.endPoint.y, to.y)
                /\ WithinPowerOfTwo(sample.endPoint.hue, to.hue, 36)

\* The last step of an inner segment of a four-point trail, whose four
\* points all differ in hue, in the render call that has just faded them:
\* the end point's x and y are those of the next point, its hue is not the
\* next point's double.
C17_Witness ==
    /\ sample # NoSample
    /\ lastEvent.kind = "tick"
    /\ Len(sample.points) = 4
    /\ sample.i = 2
    /\ sample.step + 1 = segmentSteps
    /\ sample.drawn
    /\ sample.points[3].alpha = AlphaScale - FADE_SPEED
    /\ SameDouble(sample.endPoint.x, sample.points[3].x)
    /\ ~SameDouble(sample.points[3].x, sample.points[2].x)
    /\ ~SameDouble(sample.endPoint.hue, sample.points[3].hue)
    /\ WithinPowerOfTwo(sample.endPoint.hue, sample.points[3].hue, 36)

\* --------------------------------------------------------------------- C21
\* The mouse alone, with room for several accepted moves on one trail, so
\* that a trail holds points captured in different frames and a tick can
\* remove the oldest of them while the newer ones stay.
FadeMove(pos) ==
    LET e == MouseEvent(pos)
        k == findTrailById(ResolveTrailId(e))
    IN  /\ InputWindow
        /\ k # 0 =>
             trails[k].cumulativeDistance + getDistance(getPos(e), trails[k].lastPoint)
               <= FadeMaxDistance
        /\ MouseMoveEvent(pos)

NextFade ==
    \/ \E pos \in StartPositions : MouseDown(pos)
    \/ \E pos \in Positions : FadeMove(pos)
    \/ MouseUp
    \/ Tick

SpecFade == Init /\ [][NextFade]_vars

\* Within every trail the stored alphas do not decrease along the sequence,
\* and no point has been through fewer render calls than a later one.
C21_Inv ==
    \A k \in 1 .. Len(trails) :
        \A n, m \in 1 .. Len(trails[k].points) :
            n < m => /\ trails[k].points[n].alpha <= trails[k].points[m].alpha
                     /\ trails[k].points[n].age >= trails[k].points[m].age

\* On a tick, the points of a trail that stays in the registry are the
\* faded points of before without their first `dropped` ones, in the same
\* order; every dropped point had faded to zero, and every kept one had not.
C21_Step ==
    lastEvent'.kind = "tick" =>
        \A k \in 1 .. Len(trails) :
            \A j \in 1 .. Len(trails') :
                trails'[j].trailId = trails[k].trailId =>
                    LET old == trails[k].points
                        new == trails'[j].points
                        dropped == Len(old) - Len(new)
                    IN  /\ dropped >= 0
                        /\ \A n \in 1 .. Len(new) :
                             /\ new[n].x = old[n + dropped].x
                             /\ new[n].y = old[n + dropped].y
                             /\ new[n].hue = old[n + dropped].hue
                             /\ new[n].alpha = old[n + dropped].alpha - FADE_SPEED
                             /\ new[n].alpha > 0
                        /\ \A n \in 1 .. dropped : old[n].alpha - FADE_SPEED <= 0

\* C21: in every trail the alphas are non-decreasing in capture order, and
\* each cleanup removes only a prefix of a trail's points: the survivors
\* are the later points, in their order, with no gap.
C21_AlphaOrderedPrefixCleanup == [][C21_Inv /\ C5_Inv /\ C21_Step]_vars

\* A tick has just run on a trail whose two starting points are gone (its
\* first point has a hue off the base hue, so it came from a move) while
\* two later points, captured in different frames, remain.
C21_Witness ==
    /\ lastEvent.kind = "tick"
    /\ \E k \in 1 .. Len(trails) :
          /\ Len(trails[k].points) >= 2
          /\ trails[k].points[1].hue # trails[k].baseHue
          /\ trails[k].points[1].alpha < trails[k].points[Len(trails[k].points)].alpha

\* --------------------------------------------------------------------- C22
\* A binding refers to the trail identifier: the mouse slot holds it, or a
\* contact's entry of the touch map does.
IsReferredTo(map, mouseSlot, trailId) ==
    \/ mouseSlot = trailId
    \/ \E id \in DOMAIN map : map[id] = trailId

\* No two bindings refer to the same trail.
C22_Inv ==
    /\ \A id, other \in DOMAIN activeTrailsMap :
          id # other => activeTrailsMap[id] # activeTrailsMap[other]
    /\ \A id \in DOMAIN activeTrailsMap : activeTrailsMap[id] # activeMouseTrailRef

\* Over one step: a trail identifier no binding referred to is referred to
\* afterwards only if the step is a pointer-down and the identifier is the
\* one that pointer-down has just issued, for a trail the registry did not
\* hold before; and a trail of the registry no binding referred to has
\* afterwards the points it had (an event) or fewer, faded (a tick).
C22_Step ==
    /\ \A trailId \in 0 .. trailIdCounterRef' :
          (/\ ~IsReferredTo(activeTrailsMap, activeMouseTrailRef, trailId)
           /\ IsReferredTo(activeTrailsMap', activeMouseTrailRef', trailId))
            => /\ lastEvent'.kind = "start"
               /\ trailId = trailIdCounterRef
               /\ trailIdCounterRef' = trailIdCounterRef + 1
               /\ TrailIndex(trails, trailId) = 0
               /\ TrailIndex(trails', trailId) = Len(trails')
    /\ \A k \in 1 .. Len(trails) :
          ~IsReferredTo(activeTrailsMap, activeMouseTrailRef, trails[k].trailId) =>
              \A j \in 1 .. Len(trails') :
                  trails'[j].trailId = trails[k].trailId =>
                      /\ Len(trails'[j].points) <= Len(trails[k].points)
                      /\ lastEvent'.kind # "tick" => trails'[j] = trails[k]
                      /\ trails'[j].cumulativeDistance = trails[k].cumulativeDistance
                      /\ trails'[j].lastPoint = trails[k].lastPoint

\* C22: a trail that no binding refers to (touch map or mouse slot) never
\* gains a point again and never becomes bound again, every binding a
\* pointer-down makes being to the trail it has just created; and no two
\* bindings ever refer to the same trail.
C22_UnboundTrailStaysUnbound == [][C22_Inv /\ C5_Inv /\ C22_Step]_vars

\* A move has just added a point to the bound trail of the registry while
\* the registry's other trail, which no binding refers to, kept its two
\* starting points.
C22_Witness ==
    /\ lastEvent.kind = "move"
    /\ Len(trails) = 2
    /\ \E k, j \in 1 .. 2 :
          /\ ~IsReferredTo(activeTrailsMap, activeMouseTrailRef, trails[k].trailId)
          /\ Len(trails[k].points) = 2
          /\ IsReferredTo(activeTrailsMap, activeMouseTrailRef, trails[j].trailId)
          /\ Len(trails[j].points) = 3
          /\ trails[j].points[3].age = 0
====
